---- MODULE Spec2Model ----
(***************************************************************************)
(* A model of hs1x0-rs, a client for TP-Link HS1x0 smart plugs.            *)
(*                                                                         *)
(*   src/src/lib.rs    the codec (size_to_bytes, size_from_bytes,          *)
(*                     encrypt_payload, decrypt_payload) and send_command  *)
(*   src/src/types.rs  the serde response schema and PlugError             *)
(*                                                                         *)
(* Two specifications share the module.  CodecSpec applies the codec's     *)
(* pure functions to bounded inputs.  Spec is one call of send_command     *)
(* against an environment (the peer and the operating system) that picks   *)
(* the outcome of every system call.                                       *)
(*                                                                         *)
(* usize is taken to be 64 bits wide, so payload_size + 4 in               *)
(* decrypt_payload cannot wrap; every length of the model is below 2^31.   *)
(***************************************************************************)
EXTENDS Integers, Sequences, FiniteSets, TLC

VARIABLES
    \* the codec harness (CodecSpec)
    cmode,      \* "test": tests::test_encrypt_payload; "wire": decrypt_payload on a received buffer
    cin,        \* the byte sequence handed to the first codec call
    cenc,       \* the Vec<u8> encrypt_payload returned
    cres,       \* how decrypt_payload ended
    cpc,        \* position of the harness
    \* one call of send_command (Spec)
    pc,         \* position inside send_command
    peer,       \* what the peer does with this connection
    request,    \* s: the request JSON text, as bytes
    resp,       \* the frame the peer sends when it answers
    timeout,    \* the stream's read timeout in ms, 0 while none is set
    sent,       \* the bytes the single write call handed to the socket
    recv,       \* &buf[0..size]: the part of buf the read filled
    decrypted,  \* the String that from_utf8 produced, as bytes
    outcome,    \* how the call ended
    failed,     \* the step whose call returned Err
    steps       \* how many times each step ran

cvars == <<cmode, cin, cenc, cres, cpc>>
tvars == <<pc, peer, request, resp, timeout, sent, recv, decrypted, outcome, failed, steps>>
vars == <<cmode, cin, cenc, cres, cpc,
          pc, peer, request, resp, timeout, sent, recv, decrypted, outcome, failed, steps>>

(***************************************************************************)
(* Bytes and the bit operations of lib.rs                                  *)
(***************************************************************************)

Min(a, b) == IF a <= b THEN a ELSE b

\* a ^ b on unsigned integers, bit by bit
RECURSIVE BitXor(_, _)
BitXor(a, b) ==
    IF a = 0 THEN b
    ELSE IF b = 0 THEN a
    ELSE ((a + b) % 2) + 2 * BitXor(a \div 2, b \div 2)

\* a & b
RECURSIVE BitAnd(_, _)
BitAnd(a, b) ==
    IF a = 0 \/ b = 0 THEN 0
    ELSE ((a % 2) * (b % 2)) + 2 * BitAnd(a \div 2, b \div 2)

\* a | b
RECURSIVE BitOr(_, _)
BitOr(a, b) ==
    IF a = 0 THEN b
    ELSE IF b = 0 THEN a
    ELSE (IF a % 2 = 1 \/ b % 2 = 1 THEN 1 ELSE 0) + 2 * BitOr(a \div 2, b \div 2)

\* a >> n and a << n
Shr(a, n) == a \div (2 ^ n)
Shl(a, n) == a * (2 ^ n)

\* x as u8
AsU8(x) == x % 256

\* x as u32: x mod 2^32, taken 16 bits at a time
AsU32(x) == (x % 65536) + 65536 * ((x \div 65536) % 65536)

\* the seed of the keystream
InitKey == 171

(***************************************************************************)
(* The codec                                                               *)
(***************************************************************************)

\* a plausible slip: the prefix written least significant byte first
size_to_bytes_le(size) ==
    << AsU8(BitAnd(size, 255)),
       AsU8(BitAnd(Shr(size, 8), 255)),
       AsU8(BitAnd(Shr(size, 16), 255)),
       AsU8(BitAnd(Shr(size, 24), 255)) >>

size_to_bytes(size) ==
    LET b1 == AsU8(BitAnd(Shr(size, 24), 255))
        b2 == AsU8(BitAnd(Shr(size, 16), 255))
        b3 == AsU8(BitAnd(Shr(size, 8), 255))
        b4 == AsU8(BitAnd(size, 255))
    IN  <<b1, b2, b3, b4>>

\* size is a slice of at least 4 bytes
size_from_bytes(size) ==
    BitOr(BitOr(BitOr(Shl(size[1], 24), Shl(size[2], 16)), Shl(size[3], 8)), size[4])

\* the for loop of encrypt_payload from element i on: key is the last byte pushed
RECURSIVE EncryptLoop(_, _, _, _)
EncryptLoop(data, i, key, v2) ==
    IF i > Len(data) THEN v2
    ELSE LET tmp == BitXor(data[i], key)
         IN  EncryptLoop(data, i + 1, tmp, Append(v2, tmp))

encrypt_payload(data) ==
    EncryptLoop(data, 1, InitKey, size_to_bytes(AsU32(Len(data))))

\* how a call that returns Vec<u8> ends: it returns, or it panics
Returned(bytes) == [kind |-> "ok", bytes |-> bytes, msg |-> ""]
Panicked(msg) == [kind |-> "panic", bytes |-> <<>>, msg |-> msg]

\* The for loop of decrypt_payload, all iterations at once.  In iteration idx
\* key is 171 for idx = 4 and data[idx - 1] afterwards (key = data[idx] ends
\* the iteration before), so byte i of the result is data[4 + i] ^ key.
DecryptLoop(data, payload_size) ==
    [i \in 1..payload_size |->
        BitXor(data[4 + i], IF i = 1 THEN InitKey ELSE data[4 + i - 1])]

\* a plausible slip: the plaintext byte, not the ciphertext byte, becomes the key
RECURSIVE DecryptLoopPlainKey(_, _, _, _)
DecryptLoopPlainKey(data, i, key, v2) ==
    IF i > Len(data) THEN v2
    ELSE LET tmp == BitXor(data[i], key)
         IN  DecryptLoopPlainKey(data, i + 1, tmp, Append(v2, tmp))

decrypt_payload_plain_key(data) ==
    IF Len(data) < 4 THEN Panicked("range end index 4 out of range for slice")
    ELSE IF size_from_bytes(SubSeq(data, 1, 4)) + 4 > Len(data)
         THEN Panicked("index out of bounds")
    ELSE Returned(DecryptLoopPlainKey(
             SubSeq(data, 5, size_from_bytes(SubSeq(data, 1, 4)) + 4), 1, InitKey, <<>>))

\* &data[0..4] panics on a slice shorter than 4 bytes; data[idx] panics at the
\* first idx >= data.len(), which the loop reaches when payload_size + 4
\* exceeds data.len().  Indexing is bounds-checked: nothing outside data is read.
decrypt_payload(data) ==
    IF Len(data) < 4 THEN Panicked("range end index 4 out of range for slice")
    ELSE LET payload_size == size_from_bytes(SubSeq(data, 1, 4))
         IN  IF payload_size + 4 > Len(data)
             THEN Panicked("index out of bounds")
             ELSE Returned(DecryptLoop(data, payload_size))

(***************************************************************************)
(* String::from_utf8 (lib.rs line 94): the UTF-8 well-formedness test      *)
(***************************************************************************)

IsCont(b) == b >= 128 /\ b <= 191

\* the number of bytes of the well-formed scalar value that starts at b[i], 0 if none does
Utf8Width(b, i) ==
    LET n == Len(b)
        c == b[i]
        at(j) == IF i + j <= n THEN b[i + j] ELSE 0
    IN  IF c < 128 THEN 1
        ELSE IF c >= 194 /\ c <= 223
             THEN IF IsCont(at(1)) THEN 2 ELSE 0
        ELSE IF c = 224
             THEN IF at(1) >= 160 /\ at(1) <= 191 /\ IsCont(at(2)) THEN 3 ELSE 0
        ELSE IF (c >= 225 /\ c <= 236) \/ c = 238 \/ c = 239
             THEN IF IsCont(at(1)) /\ IsCont(at(2)) THEN 3 ELSE 0
        ELSE IF c = 237
             THEN IF at(1) >= 128 /\ at(1) <= 159 /\ IsCont(at(2)) THEN 3 ELSE 0
        ELSE IF c = 240
             THEN IF at(1) >= 144 /\ at(1) <= 191 /\ IsCont(at(2)) /\ IsCont(at(3)) THEN 4 ELSE 0
        ELSE IF c >= 241 /\ c <= 243
             THEN IF IsCont(at(1)) /\ IsCont(at(2)) /\ IsCont(at(3)) THEN 4 ELSE 0
        ELSE IF c = 244
             THEN IF at(1) >= 128 /\ at(1) <= 143 /\ IsCont(at(2)) /\ IsCont(at(3)) THEN 4 ELSE 0
        ELSE 0

\* b is well-formed UTF-8: every byte outside 128..191 starts a well-formed
\* scalar value, and every byte inside 128..191 belongs to the one started by
\* the nearest such byte before it
from_utf8_ok(b) ==
    \A i \in 1..Len(b) :
        IF ~IsCont(b[i]) THEN Utf8Width(b, i) > 0
        ELSE \E j \in 1..3 :
                /\ i - j >= 1
                /\ ~IsCont(b[i - j])
                /\ \A l \in 1..(j - 1) : IsCont(b[i - l])
                /\ Utf8Width(b, i - j) > j

(***************************************************************************)
(* JSON documents and the serde schema of types.rs                         *)
(***************************************************************************)

\* a JSON value: its kind, and the members of an object or elements of an array
\* in document order (scalars keep only their kind)
JNull == [t |-> "null", m |-> <<>>]
JBool == [t |-> "bool", m |-> <<>>]
JInt == [t |-> "int", m |-> <<>>]
JFloat == [t |-> "float", m |-> <<>>]
JStr == [t |-> "str", m |-> <<>>]
JArr(elems) == [t |-> "arr", m |-> elems]
JObj(members) == [t |-> "obj", m |-> members]
Member(k, v) == [k |-> k, v |-> v]

\* the outcome of the JSON syntax pass of serde_json::from_str
Parsed(j) == [ok |-> TRUE, json |-> j, msg |-> <<>>]
SyntaxError(msg) == [ok |-> FALSE, json |-> JNull, msg |-> msg]

\* Rust types of the schema
TI64 == [k |-> "i64", name |-> "", of |-> <<>>]
TF64 == [k |-> "f64", name |-> "", of |-> <<>>]
TString == [k |-> "String", name |-> "", of |-> <<>>]
TOption(ty) == [k |-> "Option", name |-> "", of |-> <<ty>>]
TVec(ty) == [k |-> "Vec", name |-> "", of |-> <<ty>>]
TStruct(n) == [k |-> "struct", name |-> n, of |-> <<>>]

Field(n, ty) == [n |-> n, ty |-> ty]

\* the fields of each struct that derives Deserialize, under their serde names
SystemGetSysInfoResponse ==
    << Field("errcode", TI64), Field("sw_ver", TString), Field("hw_ver", TString),
       Field("type", TString), Field("model", TString), Field("mac", TString),
       Field("deviceId", TString), Field("hwId", TString), Field("fwId", TString),
       Field("oemId", TString), Field("alias", TString), Field("dev_name", TString),
       Field("icon_hash", TString), Field("relay_state", TI64), Field("on_time", TI64),
       Field("active_mode", TString), Field("feature", TString), Field("updating", TI64),
       Field("rssi", TI64), Field("led_off", TI64), Field("latitude", TF64),
       Field("longitude", TF64) >>

SystemResponse ==
    << Field("get_sysinfo", TStruct("SystemGetSysInfoResponse")) >>

EmeterGetRealtimeResponse ==
    << Field("current", TOption(TF64)), Field("current_ma", TOption(TF64)),
       Field("voltage", TOption(TF64)), Field("voltage_mv", TOption(TF64)),
       Field("power", TOption(TF64)), Field("power_mw", TOption(TF64)),
       Field("total", TOption(TF64)), Field("total_wh", TOption(TF64)),
       Field("err_code", TI64) >>

EmeterGetVGainIGainResponse ==
    << Field("vgain", TI64), Field("igain", TI64), Field("err_code", TI64) >>

EmeterGetDaystatItem ==
    << Field("year", TI64), Field("month", TI64), Field("day", TI64), Field("energy", TF64) >>

EmeterGetDaystatResponse ==
    << Field("day_list", TVec(TStruct("EmeterGetDaystatItem"))), Field("err_code", TI64) >>

EmeterResponse ==
    << Field("get_realtime", TOption(TStruct("EmeterGetRealtimeResponse"))),
       Field("get_vgain_igain", TOption(TStruct("EmeterGetVGainIGainResponse"))),
       Field("get_daystat", TOption(TStruct("EmeterGetDaystatResponse"))) >>

PlugResponse ==
    << Field("system", TOption(TStruct("SystemResponse"))),
       Field("emeter", TOption(TStruct("EmeterResponse"))) >>

Fields(name) ==
    CASE name = "PlugResponse" -> PlugResponse
      [] name = "SystemResponse" -> SystemResponse
      [] name = "SystemGetSysInfoResponse" -> SystemGetSysInfoResponse
      [] name = "EmeterResponse" -> EmeterResponse
      [] name = "EmeterGetRealtimeResponse" -> EmeterGetRealtimeResponse
      [] name = "EmeterGetVGainIGainResponse" -> EmeterGetVGainIGainResponse
      [] name = "EmeterGetDaystatResponse" -> EmeterGetDaystatResponse
      [] name = "EmeterGetDaystatItem" -> EmeterGetDaystatItem

\* typed values: a scalar, None, Some(v), a Vec, or a struct with its fields in order
VScalar(k) == [t |-> k, name |-> "", f |-> <<>>]
VNone == [t |-> "None", name |-> "", f |-> <<>>]
VSome(v) == [t |-> "Some", name |-> "", f |-> <<v>>]
VVec(vs) == [t |-> "Vec", name |-> "", f |-> vs]
VStruct(name, vs) == [t |-> "struct", name |-> name, f |-> vs]
VUnset == [t |-> "unset", name |-> "", f |-> <<>>]

DeOk(v) == [ok |-> TRUE, v |-> v, msg |-> <<>>]
DeErr(msg) == [ok |-> FALSE, v |-> VUnset, msg |-> msg]

\* the position of the field with serde name key, 0 if the struct has none
FieldIndex(fields, key) ==
    IF \E i \in 1..Len(fields) : fields[i].n = key
    THEN CHOOSE i \in 1..Len(fields) : fields[i].n = key
    ELSE 0

\* After the last member: a field no member set is None when it is an Option
\* and the error 'missing field' otherwise, the first such field in declaration order.
RECURSIVE FinishStruct(_, _, _, _)
FinishStruct(name, fields, slots, i) ==
    IF i > Len(fields) THEN DeOk(VStruct(name, slots))
    ELSE IF slots[i].t # "unset" THEN FinishStruct(name, fields, slots, i + 1)
    ELSE IF fields[i].ty.k = "Option"
         THEN FinishStruct(name, fields, [slots EXCEPT ![i] = VNone], i + 1)
    ELSE DeErr(<<"missing field '", fields[i].n, "'">>)

RECURSIVE Deserialize(_, _)
RECURSIVE VisitMap(_, _, _, _)
RECURSIVE VisitSeq(_, _, _, _)
RECURSIVE VisitVec(_, _, _, _)

\* visit_map of a derived struct: the members in document order; a member the
\* struct does not know is skipped, a repeated one is an error
VisitMap(name, members, i, slots) ==
    LET fields == Fields(name) IN
    IF i > Len(members) THEN FinishStruct(name, fields, slots, 1)
    ELSE LET idx == FieldIndex(fields, members[i].k) IN
         IF idx = 0 THEN VisitMap(name, members, i + 1, slots)
         ELSE IF slots[idx].t # "unset"
              THEN DeErr(<<"duplicate field '", members[i].k, "'">>)
         ELSE LET r == Deserialize(fields[idx].ty, members[i].v) IN
              IF r.ok THEN VisitMap(name, members, i + 1, [slots EXCEPT ![idx] = r.v])
              ELSE r

\* visit_seq of a derived struct: a JSON array gives the fields by position
VisitSeq(name, elems, i, slots) ==
    LET fields == Fields(name) IN
    IF i > Len(fields)
    THEN IF Len(elems) > Len(fields) THEN DeErr(<<"trailing characters">>)
         ELSE DeOk(VStruct(name, slots))
    ELSE IF i > Len(elems) THEN DeErr(<<"invalid length ", "struct ", name>>)
    ELSE LET r == Deserialize(fields[i].ty, elems[i]) IN
         IF r.ok THEN VisitSeq(name, elems, i + 1, [slots EXCEPT ![i] = r.v])
         ELSE r

VisitVec(ty, elems, i, acc) ==
    IF i > Len(elems) THEN DeOk(VVec(acc))
    ELSE LET r == Deserialize(ty, elems[i]) IN
         IF r.ok THEN VisitVec(ty, elems, i + 1, Append(acc, r.v)) ELSE r

\* <T as Deserialize>::deserialize on a JSON value
Deserialize(ty, j) ==
    CASE ty.k = "i64" ->
            IF j.t = "int" THEN DeOk(VScalar("i64"))
            ELSE DeErr(<<"invalid type: ", j.t, ", expected i64">>)
      [] ty.k = "f64" ->
            IF j.t \in {"int", "float"} THEN DeOk(VScalar("f64"))
            ELSE DeErr(<<"invalid type: ", j.t, ", expected f64">>)
      [] ty.k = "String" ->
            IF j.t = "str" THEN DeOk(VScalar("String"))
            ELSE DeErr(<<"invalid type: ", j.t, ", expected a string">>)
      [] ty.k = "Option" ->
            IF j.t = "null" THEN DeOk(VNone)
            ELSE LET r == Deserialize(ty.of[1], j) IN
                 IF r.ok THEN DeOk(VSome(r.v)) ELSE r
      [] ty.k = "Vec" ->
            IF j.t = "arr" THEN VisitVec(ty.of[1], j.m, 1, <<>>)
            ELSE DeErr(<<"invalid type: ", j.t, ", expected a sequence">>)
      [] ty.k = "struct" ->
            LET unset == [i \in 1..Len(Fields(ty.name)) |-> VUnset] IN
            IF j.t = "obj" THEN VisitMap(ty.name, j.m, 1, unset)
            ELSE IF j.t = "arr" THEN VisitSeq(ty.name, j.m, 1, unset)
            ELSE DeErr(<<"invalid type: ", j.t, ", expected struct ", ty.name>>)

(***************************************************************************)
(* The documents a peer answers with.  text is the JSON text, frame the    *)
(* bytes on the wire (prefix and keystream as the device produces them),   *)
(* parsed what the syntax pass of serde_json makes of text, sparse whether *)
(* the document is a response whose leaf fields are absent or null.        *)
(***************************************************************************)

\* every milli-unit reading present: {"emeter":{"get_realtime":{"voltage_mv":230100,"current_ma":12,"power_mw":1500,"total_wh":7,"err_code":0}}}
DocRtFull ==
    [ name |-> "RtFull",
      text |-> << 123, 34, 101, 109, 101, 116, 101, 114, 34, 58, 123, 34, 103, 101, 116, 95, 114, 101, 97, 108,
                 116, 105, 109, 101, 34, 58, 123, 34, 118, 111, 108, 116, 97, 103, 101, 95, 109, 118, 34, 58,
                 50, 51, 48, 49, 48, 48, 44, 34, 99, 117, 114, 114, 101, 110, 116, 95, 109, 97, 34, 58,
                 49, 50, 44, 34, 112, 111, 119, 101, 114, 95, 109, 119, 34, 58, 49, 53, 48, 48, 44, 34,
                 116, 111, 116, 97, 108, 95, 119, 104, 34, 58, 55, 44, 34, 101, 114, 114, 95, 99, 111, 100,
                 101, 34, 58, 48, 125, 125, 125 >>,
      frame |-> << 0, 0, 0, 107, 208, 242, 151, 250, 159, 235, 142, 252, 222, 228, 159, 189, 218, 191, 203, 148,
                  230, 131, 226, 142, 250, 147, 254, 155, 185, 131, 248, 218, 172, 195, 175, 219, 186, 221, 184, 231,
                  138, 252, 222, 228, 214, 229, 213, 228, 212, 228, 200, 234, 137, 252, 142, 252, 153, 247, 131, 220,
                  177, 208, 242, 200, 249, 203, 231, 197, 181, 218, 173, 200, 186, 229, 136, 255, 221, 231, 214, 227,
                  211, 227, 207, 237, 153, 246, 130, 227, 143, 208, 167, 207, 237, 215, 224, 204, 238, 139, 249, 139,
                  212, 183, 216, 188, 217, 251, 193, 241, 140, 241, 140 >>,
      sparse |-> FALSE,
      parsed |-> Parsed(JObj(<< Member("emeter", JObj(<< Member("get_realtime", JObj(<< Member("voltage_mv", JInt),
                                                                                             Member("current_ma", JInt),
                                                                                             Member("power_mw", JInt),
                                                                                             Member("total_wh", JInt),
                                                                                             Member("err_code", JInt) >>)) >>)) >>)) ]

\* legacy readings, power and total absent: {"emeter":{"get_realtime":{"current":0.012,"voltage":230.1,"err_code":0}}}
DocRtLegacy ==
    [ name |-> "RtLegacy",
      text |-> << 123, 34, 101, 109, 101, 116, 101, 114, 34, 58, 123, 34, 103, 101, 116, 95, 114, 101, 97, 108,
                 116, 105, 109, 101, 34, 58, 123, 34, 99, 117, 114, 114, 101, 110, 116, 34, 58, 48, 46, 48,
                 49, 50, 44, 34, 118, 111, 108, 116, 97, 103, 101, 34, 58, 50, 51, 48, 46, 49, 44, 34,
                 101, 114, 114, 95, 99, 111, 100, 101, 34, 58, 48, 125, 125, 125 >>,
      frame |-> << 0, 0, 0, 74, 208, 242, 151, 250, 159, 235, 142, 252, 222, 228, 159, 189, 218, 191, 203, 148,
                  230, 131, 226, 142, 250, 147, 254, 155, 185, 131, 248, 218, 185, 204, 190, 204, 169, 199, 179, 145,
                  171, 155, 181, 133, 180, 134, 170, 136, 254, 145, 253, 137, 232, 143, 234, 200, 242, 192, 243, 195,
                  237, 220, 240, 210, 183, 197, 183, 232, 139, 228, 128, 229, 199, 253, 205, 176, 205, 176 >>,
      sparse |-> TRUE,
      parsed |-> Parsed(JObj(<< Member("emeter", JObj(<< Member("get_realtime", JObj(<< Member("current", JFloat),
                                                                                             Member("voltage", JFloat),
                                                                                             Member("err_code", JInt) >>)) >>)) >>)) ]

\* every reading absent: {"emeter":{"get_realtime":{"err_code":0}}}
DocRtErrOnly ==
    [ name |-> "RtErrOnly",
      text |-> << 123, 34, 101, 109, 101, 116, 101, 114, 34, 58, 123, 34, 103, 101, 116, 95, 114, 101, 97, 108,
                 116, 105, 109, 101, 34, 58, 123, 34, 101, 114, 114, 95, 99, 111, 100, 101, 34, 58, 48, 125,
                 125, 125 >>,
      frame |-> << 0, 0, 0, 42, 208, 242, 151, 250, 159, 235, 142, 252, 222, 228, 159, 189, 218, 191, 203, 148,
                  230, 131, 226, 142, 250, 147, 254, 155, 185, 131, 248, 218, 191, 205, 191, 224, 131, 236, 136, 237,
                  207, 245, 197, 184, 197, 184 >>,
      sparse |-> TRUE,
      parsed |-> Parsed(JObj(<< Member("emeter", JObj(<< Member("get_realtime", JObj(<< Member("err_code", JInt) >>)) >>)) >>)) ]

\* readings null or absent: {"emeter":{"get_realtime":{"current":null,"voltage_mv":null,"err_code":0}}}
DocRtNulls ==
    [ name |-> "RtNulls",
      text |-> << 123, 34, 101, 109, 101, 116, 101, 114, 34, 58, 123, 34, 103, 101, 116, 95, 114, 101, 97, 108,
                 116, 105, 109, 101, 34, 58, 123, 34, 99, 117, 114, 114, 101, 110, 116, 34, 58, 110, 117, 108,
                 108, 44, 34, 118, 111, 108, 116, 97, 103, 101, 95, 109, 118, 34, 58, 110, 117, 108, 108, 44,
                 34, 101, 114, 114, 95, 99, 111, 100, 101, 34, 58, 48, 125, 125, 125 >>,
      frame |-> << 0, 0, 0, 75, 208, 242, 151, 250, 159, 235, 142, 252, 222, 228, 159, 189, 218, 191, 203, 148,
                  230, 131, 226, 142, 250, 147, 254, 155, 185, 131, 248, 218, 185, 204, 190, 204, 169, 199, 179, 145,
                  171, 197, 176, 220, 176, 156, 190, 200, 167, 203, 191, 222, 185, 220, 131, 238, 152, 186, 128, 238,
                  155, 247, 155, 183, 149, 240, 130, 240, 175, 204, 163, 199, 162, 128, 186, 138, 247, 138, 247 >>,
      sparse |-> TRUE,
      parsed |-> Parsed(JObj(<< Member("emeter", JObj(<< Member("get_realtime", JObj(<< Member("current", JNull),
                                                                                             Member("voltage_mv", JNull),
                                                                                             Member("err_code", JInt) >>)) >>)) >>)) ]

\* get_realtime with no members: {"emeter":{"get_realtime":{}}}
DocRtEmpty ==
    [ name |-> "RtEmpty",
      text |-> << 123, 34, 101, 109, 101, 116, 101, 114, 34, 58, 123, 34, 103, 101, 116, 95, 114, 101, 97, 108,
                 116, 105, 109, 101, 34, 58, 123, 125, 125, 125 >>,
      frame |-> << 0, 0, 0, 30, 208, 242, 151, 250, 159, 235, 142, 252, 222, 228, 159, 189, 218, 191, 203, 148,
                  230, 131, 226, 142, 250, 147, 254, 155, 185, 131, 248, 133, 248, 133 >>,
      sparse |-> TRUE,
      parsed |-> Parsed(JObj(<< Member("emeter", JObj(<< Member("get_realtime", JObj(<<>>)) >>)) >>)) ]

\* err_code null: {"emeter":{"get_realtime":{"power":1.5,"err_code":null}}}
DocRtErrNull ==
    [ name |-> "RtErrNull",
      text |-> << 123, 34, 101, 109, 101, 116, 101, 114, 34, 58, 123, 34, 103, 101, 116, 95, 114, 101, 97, 108,
                 116, 105, 109, 101, 34, 58, 123, 34, 112, 111, 119, 101, 114, 34, 58, 49, 46, 53, 44, 34,
                 101, 114, 114, 95, 99, 111, 100, 101, 34, 58, 110, 117, 108, 108, 125, 125, 125 >>,
      frame |-> << 0, 0, 0, 57, 208, 242, 151, 250, 159, 235, 142, 252, 222, 228, 159, 189, 218, 191, 203, 148,
                  230, 131, 226, 142, 250, 147, 254, 155, 185, 131, 248, 218, 170, 197, 178, 215, 165, 135, 189, 140,
                  162, 151, 187, 153, 252, 142, 252, 163, 192, 175, 203, 174, 140, 182, 216, 173, 193, 173, 208, 173,
                  208 >>,
      sparse |-> TRUE,
      parsed |-> Parsed(JObj(<< Member("emeter", JObj(<< Member("get_realtime", JObj(<< Member("power", JFloat),
                                                                                             Member("err_code", JNull) >>)) >>)) >>)) ]

\* err_code a string: {"emeter":{"get_realtime":{"err_code":"0"}}}
DocRtBadType ==
    [ name |-> "RtBadType",
      text |-> << 123, 34, 101, 109, 101, 116, 101, 114, 34, 58, 123, 34, 103, 101, 116, 95, 114, 101, 97, 108,
                 116, 105, 109, 101, 34, 58, 123, 34, 101, 114, 114, 95, 99, 111, 100, 101, 34, 58, 34, 48,
                 34, 125, 125, 125 >>,
      frame |-> << 0, 0, 0, 44, 208, 242, 151, 250, 159, 235, 142, 252, 222, 228, 159, 189, 218, 191, 203, 148,
                  230, 131, 226, 142, 250, 147, 254, 155, 185, 131, 248, 218, 191, 205, 191, 224, 131, 236, 136, 237,
                  207, 245, 215, 231, 197, 184, 197, 184 >>,
      sparse |-> FALSE,
      parsed |-> Parsed(JObj(<< Member("emeter", JObj(<< Member("get_realtime", JObj(<< Member("err_code", JStr) >>)) >>)) >>)) ]

\* err_code twice: {"emeter":{"get_realtime":{"err_code":0,"err_code":0}}}
DocRtDup ==
    [ name |-> "RtDup",
      text |-> << 123, 34, 101, 109, 101, 116, 101, 114, 34, 58, 123, 34, 103, 101, 116, 95, 114, 101, 97, 108,
                 116, 105, 109, 101, 34, 58, 123, 34, 101, 114, 114, 95, 99, 111, 100, 101, 34, 58, 48, 44,
                 34, 101, 114, 114, 95, 99, 111, 100, 101, 34, 58, 48, 125, 125, 125 >>,
      frame |-> << 0, 0, 0, 55, 208, 242, 151, 250, 159, 235, 142, 252, 222, 228, 159, 189, 218, 191, 203, 148,
                  230, 131, 226, 142, 250, 147, 254, 155, 185, 131, 248, 218, 191, 205, 191, 224, 131, 236, 136, 237,
                  207, 245, 197, 233, 203, 174, 220, 174, 241, 146, 253, 153, 252, 222, 228, 212, 169, 212, 169 >>,
      sparse |-> FALSE,
      parsed |-> Parsed(JObj(<< Member("emeter", JObj(<< Member("get_realtime", JObj(<< Member("err_code", JInt),
                                                                                             Member("err_code", JInt) >>)) >>)) >>)) ]

\* emeter null: {"emeter":null}
DocEmeterNull ==
    [ name |-> "EmeterNull",
      text |-> << 123, 34, 101, 109, 101, 116, 101, 114, 34, 58, 110, 117, 108, 108, 125 >>,
      frame |-> << 0, 0, 0, 15, 208, 242, 151, 250, 159, 235, 142, 252, 222, 228, 138, 255, 147, 255, 130 >>,
      sparse |-> TRUE,
      parsed |-> Parsed(JObj(<< Member("emeter", JNull) >>)) ]

\* no module at all: {}
DocEmptyObj ==
    [ name |-> "EmptyObj",
      text |-> << 123, 125 >>,
      frame |-> << 0, 0, 0, 2, 208, 173 >>,
      sparse |-> TRUE,
      parsed |-> Parsed(JObj(<<>>)) ]

\* members the schema does not know: {"emeter":{"get_realtime":{"err_code":0,"slot_id":3}},"time":{"get_time":null}}
DocExtra ==
    [ name |-> "Extra",
      text |-> << 123, 34, 101, 109, 101, 116, 101, 114, 34, 58, 123, 34, 103, 101, 116, 95, 114, 101, 97, 108,
                 116, 105, 109, 101, 34, 58, 123, 34, 101, 114, 114, 95, 99, 111, 100, 101, 34, 58, 48, 44,
                 34, 115, 108, 111, 116, 95, 105, 100, 34, 58, 51, 125, 125, 44, 34, 116, 105, 109, 101, 34,
                 58, 123, 34, 103, 101, 116, 95, 116, 105, 109, 101, 34, 58, 110, 117, 108, 108, 125, 125 >>,
      frame |-> << 0, 0, 0, 79, 208, 242, 151, 250, 159, 235, 142, 252, 222, 228, 159, 189, 218, 191, 203, 148,
                  230, 131, 226, 142, 250, 147, 254, 155, 185, 131, 248, 218, 191, 205, 191, 224, 131, 236, 136, 237,
                  207, 245, 197, 233, 203, 184, 212, 187, 207, 144, 249, 157, 191, 133, 182, 203, 182, 154, 184, 204,
                  165, 200, 173, 143, 181, 206, 236, 139, 238, 154, 197, 177, 216, 181, 208, 242, 200, 166, 211, 191,
                  211, 174, 211 >>,
      sparse |-> TRUE,
      parsed |-> Parsed(JObj(<< Member("emeter", JObj(<< Member("get_realtime", JObj(<< Member("err_code", JInt),
                                                                                             Member("slot_id", JInt) >>)) >>)),
                                 Member("time", JObj(<< Member("get_time", JNull) >>)) >>)) ]

\* a day list: {"emeter":{"get_daystat":{"day_list":[{"year":2022,"month":1,"day":2,"energy":0.5}],"err_code":0}}}
DocDayStat ==
    [ name |-> "DayStat",
      text |-> << 123, 34, 101, 109, 101, 116, 101, 114, 34, 58, 123, 34, 103, 101, 116, 95, 100, 97, 121, 115,
                 116, 97, 116, 34, 58, 123, 34, 100, 97, 121, 95, 108, 105, 115, 116, 34, 58, 91, 123, 34,
                 121, 101, 97, 114, 34, 58, 50, 48, 50, 50, 44, 34, 109, 111, 110, 116, 104, 34, 58, 49,
                 44, 34, 100, 97, 121, 34, 58, 50, 44, 34, 101, 110, 101, 114, 103, 121, 34, 58, 48, 46,
                 53, 125, 93, 44, 34, 101, 114, 114, 95, 99, 111, 100, 101, 34, 58, 48, 125, 125, 125 >>,
      frame |-> << 0, 0, 0, 99, 208, 242, 151, 250, 159, 235, 142, 252, 222, 228, 159, 189, 218, 191, 203, 148,
                  240, 145, 232, 155, 239, 142, 250, 216, 226, 153, 187, 223, 190, 199, 152, 244, 157, 238, 154, 184,
                  130, 217, 162, 128, 249, 156, 253, 143, 173, 151, 165, 149, 167, 149, 185, 155, 246, 153, 247, 131,
                  235, 201, 243, 194, 238, 204, 168, 201, 176, 146, 168, 154, 182, 148, 241, 159, 250, 136, 239, 150,
                  180, 142, 190, 144, 165, 216, 133, 169, 139, 238, 156, 238, 177, 210, 189, 217, 188, 158, 164, 148,
                  233, 148, 233 >>,
      sparse |-> FALSE,
      parsed |-> Parsed(JObj(<< Member("emeter", JObj(<< Member("get_daystat", JObj(<< Member("day_list", JArr(<< JObj(<< Member("year", JInt),
                                                                                                                            Member("month", JInt),
                                                                                                                            Member("day", JInt),
                                                                                                                            Member("energy", JFloat) >>) >>)),
                                                                                            Member("err_code", JInt) >>)) >>)) >>)) ]

\* the acknowledgement of set_relay_state: {"system":{"set_relay_state":{"err_code":0}}}
DocRelayAck ==
    [ name |-> "RelayAck",
      text |-> << 123, 34, 115, 121, 115, 116, 101, 109, 34, 58, 123, 34, 115, 101, 116, 95, 114, 101, 108, 97,
                 121, 95, 115, 116, 97, 116, 101, 34, 58, 123, 34, 101, 114, 114, 95, 99, 111, 100, 101, 34,
                 58, 48, 125, 125, 125 >>,
      frame |-> << 0, 0, 0, 45, 208, 242, 129, 248, 139, 255, 154, 247, 213, 239, 148, 182, 197, 160, 212, 139,
                  249, 156, 240, 145, 232, 183, 196, 176, 209, 165, 192, 226, 216, 163, 129, 228, 150, 228, 187, 216,
                  183, 211, 182, 148, 174, 158, 227, 158, 227 >>,
      sparse |-> FALSE,
      parsed |-> Parsed(JObj(<< Member("system", JObj(<< Member("set_relay_state", JObj(<< Member("err_code", JInt) >>)) >>)) >>)) ]

\* get_sysinfo lacking fields: {"system":{"get_sysinfo":{"alias":"plug","relay_state":1}}}
DocSysPartial ==
    [ name |-> "SysPartial",
      text |-> << 123, 34, 115, 121, 115, 116, 101, 109, 34, 58, 123, 34, 103, 101, 116, 95, 115, 121, 115, 105,
                 110, 102, 111, 34, 58, 123, 34, 97, 108, 105, 97, 115, 34, 58, 34, 112, 108, 117, 103, 34,
                 44, 34, 114, 101, 108, 97, 121, 95, 115, 116, 97, 116, 101, 34, 58, 49, 125, 125, 125 >>,
      frame |-> << 0, 0, 0, 59, 208, 242, 129, 248, 139, 255, 154, 247, 213, 239, 148, 182, 209, 180, 192, 159,
                  236, 149, 230, 143, 225, 135, 232, 202, 240, 139, 169, 200, 164, 205, 172, 223, 253, 199, 229, 149,
                  249, 140, 235, 201, 229, 199, 181, 208, 188, 221, 164, 251, 136, 252, 157, 233, 140, 174, 148, 165,
                  216, 165, 216 >>,
      sparse |-> TRUE,
      parsed |-> Parsed(JObj(<< Member("system", JObj(<< Member("get_sysinfo", JObj(<< Member("alias", JStr),
                                                                                            Member("relay_state", JInt) >>)) >>)) >>)) ]

\* get_sysinfo complete: system.get_sysinfo with its 22 fields
DocSysFull ==
    [ name |-> "SysFull",
      text |-> << 123, 34, 115, 121, 115, 116, 101, 109, 34, 58, 123, 34, 103, 101, 116, 95, 115, 121, 115, 105,
                 110, 102, 111, 34, 58, 123, 34, 101, 114, 114, 99, 111, 100, 101, 34, 58, 48, 44, 34, 115,
                 119, 95, 118, 101, 114, 34, 58, 34, 49, 46, 50, 46, 53, 34, 44, 34, 104, 119, 95, 118,
                 101, 114, 34, 58, 34, 49, 46, 48, 34, 44, 34, 116, 121, 112, 101, 34, 58, 34, 73, 79,
                 84, 46, 83, 77, 65, 82, 84, 80, 76, 85, 71, 83, 87, 73, 84, 67, 72, 34, 44, 34,
                 109, 111, 100, 101, 108, 34, 58, 34, 72, 83, 49, 49, 48, 40, 69, 85, 41, 34, 44, 34,
                 109, 97, 99, 34, 58, 34, 53, 48, 58, 67, 55, 58, 66, 70, 58, 48, 48, 58, 48, 48,
                 58, 48, 49, 34, 44, 34, 100, 101, 118, 105, 99, 101, 73, 100, 34, 58, 34, 56, 48, 48,
                 54, 34, 44, 34, 104, 119, 73, 100, 34, 58, 34, 52, 53, 69, 50, 34, 44, 34, 102, 119,
                 73, 100, 34, 58, 34, 56, 53, 49, 69, 34, 44, 34, 111, 101, 109, 73, 100, 34, 58, 34,
                 51, 68, 51, 52, 34, 44, 34, 97, 108, 105, 97, 115, 34, 58, 34, 112, 108, 117, 103, 34,
                 44, 34, 100, 101, 118, 95, 110, 97, 109, 101, 34, 58, 34, 87, 105, 45, 70, 105, 32, 83,
                 109, 97, 114, 116, 32, 80, 108, 117, 103, 34, 44, 34, 105, 99, 111, 110, 95, 104, 97, 115,
                 104, 34, 58, 34, 34, 44, 34, 114, 101, 108, 97, 121, 95, 115, 116, 97, 116, 101, 34, 58,
                 49, 44, 34, 111, 110, 95, 116, 105, 109, 101, 34, 58, 54, 48, 44, 34, 97, 99, 116, 105,
                 118, 101, 95, 109, 111, 100, 101, 34, 58, 34, 110, 111, 110, 101, 34, 44, 34, 102, 101, 97,
                 116, 117, 114, 101, 34, 58, 34, 84, 73, 77, 58, 69, 78, 69, 34, 44, 34, 117, 112, 100,
                 97, 116, 105, 110, 103, 34, 58, 48, 44, 34, 114, 115, 115, 105, 34, 58, 45, 53, 54, 44,
                 34, 108, 101, 100, 95, 111, 102, 102, 34, 58, 48, 44, 34, 108, 97, 116, 105, 116, 117, 100,
                 101, 34, 58, 52, 56, 46, 49, 44, 34, 108, 111, 110, 103, 105, 116, 117, 100, 101, 34, 58,
                 49, 49, 46, 53, 125, 125, 125 >>,
      frame |-> << 0, 0, 1, 151, 208, 242, 129, 248, 139, 255, 154, 247, 213, 239, 148, 182, 209, 180, 192, 159,
                  236, 149, 230, 143, 225, 135, 232, 202, 240, 139, 169, 204, 190, 204, 175, 192, 164, 193, 227, 217,
                  233, 197, 231, 148, 227, 188, 202, 175, 221, 255, 197, 231, 214, 248, 202, 228, 209, 243, 223, 253,
                  149, 226, 189, 203, 174, 220, 254, 196, 230, 215, 249, 201, 235, 199, 229, 145, 232, 152, 253, 223,
                  229, 199, 142, 193, 149, 187, 232, 165, 228, 182, 226, 178, 254, 171, 236, 191, 232, 161, 245, 182,
                  254, 220, 240, 210, 191, 208, 180, 209, 189, 159, 165, 135, 207, 156, 173, 156, 172, 132, 193, 148,
                  189, 159, 179, 145, 252, 157, 254, 220, 230, 196, 241, 193, 251, 184, 143, 181, 247, 177, 139, 187,
                  139, 177, 129, 177, 139, 187, 138, 168, 132, 166, 194, 167, 209, 184, 219, 190, 247, 147, 177, 139,
                  169, 145, 161, 145, 167, 133, 169, 139, 227, 148, 221, 185, 155, 161, 131, 183, 130, 199, 245, 215,
                  251, 217, 191, 200, 129, 229, 199, 253, 223, 231, 210, 227, 166, 132, 168, 138, 229, 128, 237, 164,
                  192, 226, 216, 250, 201, 141, 190, 138, 168, 132, 166, 199, 171, 194, 163, 208, 242, 200, 234, 154,
                  246, 131, 228, 198, 234, 200, 172, 201, 191, 224, 142, 239, 130, 231, 197, 255, 221, 138, 227, 206,
                  136, 225, 193, 146, 255, 158, 236, 152, 184, 232, 132, 241, 150, 180, 152, 186, 211, 176, 223, 177,
                  238, 134, 231, 148, 252, 222, 228, 198, 228, 200, 234, 152, 253, 145, 240, 137, 214, 165, 209, 176,
                  196, 161, 131, 185, 136, 164, 134, 233, 135, 216, 172, 197, 168, 205, 239, 213, 227, 211, 255, 221,
                  188, 223, 171, 194, 180, 209, 142, 227, 140, 232, 141, 175, 149, 183, 217, 182, 216, 189, 159, 179,
                  145, 247, 146, 243, 135, 242, 128, 229, 199, 253, 223, 139, 194, 143, 181, 240, 190, 251, 217, 245,
                  215, 162, 210, 182, 215, 163, 202, 164, 195, 225, 219, 235, 199, 229, 151, 228, 151, 254, 220, 230,
                  203, 254, 200, 228, 198, 170, 207, 171, 244, 155, 253, 155, 185, 131, 179, 159, 189, 209, 176, 196,
                  173, 217, 172, 200, 173, 143, 181, 129, 185, 151, 166, 138, 168, 196, 171, 197, 162, 203, 191, 202,
                  174, 203, 233, 211, 226, 211, 253, 200, 181, 200, 181 >>,
      sparse |-> FALSE,
      parsed |-> Parsed(JObj(<< Member("system", JObj(<< Member("get_sysinfo", JObj(<< Member("errcode", JInt),
                                                                                            Member("sw_ver", JStr),
                                                                                            Member("hw_ver", JStr),
                                                                                            Member("type", JStr),
                                                                                            Member("model", JStr),
                                                                                            Member("mac", JStr),
                                                                                            Member("deviceId", JStr),
                                                                                            Member("hwId", JStr),
                                                                                            Member("fwId", JStr),
                                                                                            Member("oemId", JStr),
                                                                                            Member("alias", JStr),
                                                                                            Member("dev_name", JStr),
                                                                                            Member("icon_hash", JStr),
                                                                                            Member("relay_state", JInt),
                                                                                            Member("on_time", JInt),
                                                                                            Member("active_mode", JStr),
                                                                                            Member("feature", JStr),
                                                                                            Member("updating", JInt),
                                                                                            Member("rssi", JInt),
                                                                                            Member("led_off", JInt),
                                                                                            Member("latitude", JFloat),
                                                                                            Member("longitude", JFloat) >>)) >>)) >>)) ]

\* a JSON array: [1]
DocTopArray ==
    [ name |-> "TopArray",
      text |-> << 91, 49, 93 >>,
      frame |-> << 0, 0, 0, 3, 240, 193, 156 >>,
      sparse |-> FALSE,
      parsed |-> Parsed(JArr(<< JInt >>)) ]

\* not JSON: hello
DocNotJson ==
    [ name |-> "NotJson",
      text |-> << 104, 101, 108, 108, 111 >>,
      frame |-> << 0, 0, 0, 5, 195, 166, 202, 166, 201 >>,
      sparse |-> FALSE,
      parsed |-> SyntaxError(<<"expected value", " at line 1 column 1">>) ]

\* a frame declaring 0 bytes: 
DocEmptyText ==
    [ name |-> "EmptyText",
      text |-> <<>>,
      frame |-> << 0, 0, 0, 0 >>,
      sparse |-> FALSE,
      parsed |-> SyntaxError(<<"EOF while parsing a value", " at line 1 column 0">>) ]

\* four bytes that are not UTF-8: '{', 0xFF, 0xFE, '}'
DocBadUtf8 ==
    [ name |-> "BadUtf8",
      text |-> << 123, 255, 254, 125 >>,
      frame |-> << 0, 0, 0, 4, 208, 47, 209, 172 >>,
      sparse |-> FALSE,
      parsed |-> SyntaxError(<<"expected value", " at line 1 column 1">>) ]

\* the capacity of the receive buffer: let mut buf = [0u8; 2048]
BufCap == 2048

\* A response too large for the receive buffer: "{}" followed by BufCap spaces
\* (JSON allows the trailing white space), 2050 bytes of text in a frame of 2054.
OversizeLen == BufCap + 2

DocOversize ==
    [ name |-> "Oversize",
      text |-> [i \in 1..OversizeLen |-> IF i = 1 THEN 123 ELSE IF i = 2 THEN 125 ELSE 32],
      frame |-> <<0, 0, OversizeLen \div 256, OversizeLen % 256>> \o
                [i \in 1..OversizeLen |->
                    IF i = 1 THEN 208 ELSE IF i % 2 = 0 THEN 173 ELSE 141],
      sparse |-> TRUE,
      parsed |-> Parsed(JObj(<<>>)) ]

Docs ==
    { DocRtFull, DocRtLegacy, DocRtErrOnly, DocRtNulls, DocRtEmpty, DocRtErrNull,
      DocRtBadType, DocRtDup, DocEmeterNull, DocEmptyObj, DocExtra, DocDayStat,
      DocRelayAck, DocSysPartial, DocSysFull, DocTopArray, DocNotJson, DocEmptyText,
      DocBadUtf8, DocOversize }

\* the syntax pass of serde_json::from_str, on the texts of the catalogue
ParseJson(text) ==
    IF \E d \in Docs : d.text = text
    THEN (CHOOSE d \in Docs : d.text = text).parsed
    ELSE SyntaxError(<<"expected value", " at line 1 column 1">>)

\* serde_json::from_str::<PlugResponse>
from_str(text) ==
    LET p == ParseJson(text)
    IN  IF p.ok THEN Deserialize(TStruct("PlugResponse"), p.json) ELSE DeErr(p.msg)

(***************************************************************************)
(* send_command                                                            *)
(***************************************************************************)

\* the arguments of stream.set_read_timeout(Some(Duration::from_millis(5000)))
ReadTimeoutMs == 5000

\* what the peer does: refuses the connection; accepts and closes at once;
\* accepts and never sends; accepts and answers with the frame resp
Peers == {"refuse", "close", "silent", "respond"}

\* cmd.to_string() of three command methods
\* {"system":{"set_relay_state":{"state":1}}}
ReqSetRelayState ==
    << 123, 34, 115, 121, 115, 116, 101, 109, 34, 58, 123, 34, 115, 101, 116, 95, 114, 101, 108, 97,
       121, 95, 115, 116, 97, 116, 101, 34, 58, 123, 34, 115, 116, 97, 116, 101, 34, 58, 49, 125,
       125, 125 >>
\* {"emeter":{"get_realtime":{}}}
ReqGetRealtime ==
    << 123, 34, 101, 109, 101, 116, 101, 114, 34, 58, 123, 34, 103, 101, 116, 95, 114, 101, 97, 108,
       116, 105, 109, 101, 34, 58, 123, 125, 125, 125 >>
\* {"system":{"get_sysinfo":{}}}
ReqGetSysinfo ==
    << 123, 34, 115, 121, 115, 116, 101, 109, 34, 58, 123, 34, 103, 101, 116, 95, 115, 121, 115, 105,
       110, 102, 111, 34, 58, 123, 125, 125, 125 >>

Requests == {ReqSetRelayState, ReqGetRealtime, ReqGetSysinfo}

\* the longest partial transfer a single write or read call is given short of everything
MaxChunk == 8

\* what one write call of n bytes may accept: everything, or a few bytes only
WriteSizes(n) == {k \in 1..n : k <= MaxChunk \/ k = n}

\* what one read call may return when avail bytes are on their way: whatever
\* fits the buffer, or only the first bytes of it
ReadSizes(avail) ==
    {k \in 1..Min(avail, BufCap) : k <= MaxChunk \/ k >= Min(avail, BufCap) - 1}

StepNames == <<"connect", "write", "read", "decode", "deserialize">>

\* Result<T, PlugError> and the panic
NoOutcome == [kind |-> "none", details |-> <<>>, value |-> VUnset]
Ok(v) == [kind |-> "ok", details |-> <<>>, value |-> v]
Err(details) == [kind |-> "err", details |-> details, value |-> VUnset]
Panic(msg) == [kind |-> "panic", details |-> <<msg>>, value |-> VUnset]

\* PlugError::new(msg)
PlugError(msg) == Err(<<msg>>)

NoResult == [kind |-> "none", bytes |-> <<>>, msg |-> ""]

CodecIdle ==
    /\ cmode = "none" /\ cin = <<>> /\ cenc = <<>> /\ cres = NoResult /\ cpc = "idle"

Init ==
    /\ CodecIdle
    /\ pc = "start"
    /\ peer \in Peers
    /\ request \in Requests
    /\ resp \in (IF peer = "respond" THEN {d.frame : d \in Docs} ELSE {<<>>})
    /\ timeout = 0
    /\ sent = <<>>
    /\ recv = <<>>
    /\ decrypted = <<>>
    /\ outcome = NoOutcome
    /\ failed = "none"
    /\ steps = [s \in {"connect", "write", "read", "decode", "deserialize"} |-> 0]

Ran(s) == steps' = [steps EXCEPT ![s] = @ + 1]

\* the call ends with the error of the step that failed
Fail(s, e) ==
    /\ outcome' = e
    /\ failed' = s
    /\ pc' = "done"

\* line 78: TcpStream::connect(ip)
Connect ==
    /\ pc = "start"
    /\ Ran("connect")
    /\ \/ /\ peer = "refuse"
          /\ Fail("connect", PlugError("Connection error"))
       \/ /\ peer # "refuse"
          /\ pc' = "connected"
          /\ UNCHANGED <<outcome, failed>>
    /\ UNCHANGED <<peer, request, resp, timeout, sent, recv, decrypted>>
    /\ UNCHANGED cvars

\* line 80: stream.set_read_timeout(..).unwrap(); the system call may fail
SetReadTimeout ==
    /\ pc = "connected"
    /\ \/ /\ timeout' = ReadTimeoutMs
          /\ pc' = "configured"
          /\ UNCHANGED outcome
       \/ /\ outcome' = Panic("called 'Result::unwrap()' on an 'Err' value")
          /\ pc' = "done"
          /\ UNCHANGED timeout
    /\ UNCHANGED <<peer, request, resp, sent, recv, decrypted, failed, steps>>
    /\ UNCHANGED cvars

\* a plausible slip: Err(e) => 0, the write error swallowed like the byte count
WriteSwallowsError ==
    /\ pc = "configured"
    /\ Ran("write")
    /\ LET payload == encrypt_payload(request) IN
       \/ /\ \E k \in WriteSizes(Len(payload)) : sent' = SubSeq(payload, 1, k)
          /\ pc' = "written"
          /\ UNCHANGED <<outcome, failed>>
       \/ /\ peer = "close"
          /\ failed' = "write"
          /\ pc' = "written"
          /\ UNCHANGED <<sent, outcome>>
    /\ UNCHANGED <<peer, request, resp, timeout, recv, decrypted>>
    /\ UNCHANGED cvars

\* lines 82-86: one stream.write(payload); Ok(_v) is discarded
Write ==
    /\ pc = "configured"
    /\ Ran("write")
    /\ LET payload == encrypt_payload(request) IN
       \/ /\ \E k \in WriteSizes(Len(payload)) : sent' = SubSeq(payload, 1, k)
          /\ pc' = "written"
          /\ UNCHANGED <<outcome, failed>>
       \/ /\ peer = "close"
          /\ Fail("write", PlugError("Write failed"))
          /\ UNCHANGED sent
    /\ UNCHANGED <<peer, request, resp, timeout, recv, decrypted>>
    /\ UNCHANGED cvars

\* the peer holds a whole request frame: the 4-byte prefix and the bytes it declares
PeerHasRequest(bytes) ==
    /\ Len(bytes) >= 4
    /\ Len(bytes) >= 4 + ((bytes[1] * 256 + bytes[2]) * 256 + bytes[3]) * 256 + bytes[4]

\* lines 88-92: one stream.read(&mut buf) into a buffer of BufCap bytes.  A
\* peer that answers does so once it holds a whole request; until then it
\* sends nothing, as a silent peer does, and the read ends when the timeout expires.
Read ==
    /\ pc = "written"
    /\ Ran("read")
    /\ \/ /\ peer = "respond"
          /\ PeerHasRequest(sent)
          /\ \E size \in ReadSizes(Len(resp)) : recv' = SubSeq(resp, 1, size)
          /\ pc' = "read"
          /\ UNCHANGED <<outcome, failed>>
       \/ /\ peer = "close"          \* end of stream: Ok(0)
          /\ recv' = <<>>
          /\ pc' = "read"
          /\ UNCHANGED <<outcome, failed>>
       \/ /\ peer = "close"          \* connection reset
          /\ Fail("read", PlugError("Read failed"))
          /\ UNCHANGED recv
       \/ /\ peer = "silent" \/ (peer = "respond" /\ ~PeerHasRequest(sent))
          /\ timeout > 0            \* the read timeout expires
          /\ Fail("read", PlugError("Read failed"))
          /\ UNCHANGED recv
    /\ UNCHANGED <<peer, request, resp, timeout, sent, decrypted>>
    /\ UNCHANGED cvars

\* lines 94-97: String::from_utf8(decrypt_payload(&buf[0..size]))
Decode ==
    /\ pc = "read"
    /\ Ran("decode")
    /\ LET d == decrypt_payload(recv) IN
       IF d.kind = "panic"
       THEN /\ outcome' = Panic(d.msg)
            /\ pc' = "done"
            /\ UNCHANGED <<decrypted, failed>>
       ELSE IF from_utf8_ok(d.bytes)
       THEN /\ decrypted' = d.bytes
            /\ pc' = "decoded"
            /\ UNCHANGED <<outcome, failed>>
       ELSE /\ Fail("decode", PlugError("Decoding failed"))
            /\ UNCHANGED decrypted
    /\ UNCHANGED <<peer, request, resp, timeout, sent, recv>>
    /\ UNCHANGED cvars

\* lines 99-103: serde_json::from_str(decrypted.as_str())
DeserializeResponse ==
    /\ pc = "decoded"
    /\ Ran("deserialize")
    /\ LET r == from_str(decrypted) IN
       IF r.ok
       THEN /\ outcome' = Ok(r.v)
            /\ pc' = "done"
            /\ UNCHANGED failed
       ELSE Fail("deserialize", Err(<<"Deserialization failed. Reason: ">> \o r.msg))
    /\ UNCHANGED <<peer, request, resp, timeout, sent, recv, decrypted>>
    /\ UNCHANGED cvars

Next ==
    \/ Connect
    \/ SetReadTimeout
    \/ Write
    \/ Read
    \/ Decode
    \/ DeserializeResponse

Spec == Init /\ [][Next]_vars

\* Once the read timeout is set, a call to a silent peer cannot block in the
\* read and ends with "Read failed".
SilentPeerTimesOut ==
    /\ (peer = "silent" /\ pc = "written") => ENABLED Read
    /\ (peer = "silent" /\ pc = "done" /\ timeout = ReadTimeoutMs) =>
          outcome = PlugError("Read failed")

(***************************************************************************)
(* CodecSpec: the codec applied to bounded inputs                          *)
(***************************************************************************)

\* longest plaintext handed to encrypt_payload
MaxLen == 4
\* longest buffer handed to decrypt_payload directly
MaxWire == 6

\* sample byte values of plaintexts: the seed 171, '{' = 123, and the extremes
PlainBytes == {0, 1, 123, 171, 255}
\* sample byte values of received buffers; all below 128 so that the declared
\* length stays below 2^31
WireBytes == {0, 1, 2, 100}
\* sample lengths handed to size_to_bytes: each byte of the prefix in use
Sizes == {0, 1, 255, 256, 2050, 65535, 65536, 16777215, 16777216, 16909060, 2147483647}

SeqsUpTo(S, n) == UNION {[1..k -> S] : k \in 0..n}

Payloads == SeqsUpTo(PlainBytes, MaxLen)
Buffers == SeqsUpTo(WireBytes, MaxWire)

TransportIdle ==
    /\ pc = "idle" /\ peer = "none" /\ request = <<>> /\ resp = <<>>
    /\ timeout = 0 /\ sent = <<>> /\ recv = <<>> /\ decrypted = <<>>
    /\ outcome = NoOutcome /\ failed = "none"
    /\ steps = [s \in {"connect", "write", "read", "decode", "deserialize"} |-> 0]

\* cin is a plaintext ("test"), a received buffer ("wire") or a length ("size")
CodecInit ==
    /\ cmode \in {"test", "wire", "size"}
    /\ cin \in (IF cmode = "test" THEN Payloads
                ELSE IF cmode = "wire" THEN Buffers ELSE Sizes)
    /\ cenc = <<>>
    /\ cres = NoResult
    /\ cpc = "start"
    /\ TransportIdle

\* tests::test_encrypt_payload, first statement: ep = encrypt_payload(...)
TestEncrypt ==
    /\ cmode = "test" /\ cpc = "start"
    /\ cenc' = encrypt_payload(cin)
    /\ cpc' = "encrypted"
    /\ UNCHANGED <<cmode, cin, cres>>
    /\ UNCHANGED tvars

\* tests::test_encrypt_payload, second statement: dp = decrypt_payload(ep)
TestDecrypt ==
    /\ cmode = "test" /\ cpc = "encrypted"
    /\ cres' = decrypt_payload(cenc)
    /\ cpc' = "done"
    /\ UNCHANGED <<cmode, cin, cenc>>
    /\ UNCHANGED tvars

\* decrypt_payload called on a buffer that came from the network
WireDecrypt ==
    /\ cmode = "wire" /\ cpc = "start"
    /\ cres' = decrypt_payload(cin)
    /\ cpc' = "done"
    /\ UNCHANGED <<cmode, cin, cenc>>
    /\ UNCHANGED tvars

\* size_to_bytes called on a length
SizeToBytes ==
    /\ cmode = "size" /\ cpc = "start"
    /\ cres' = Returned(size_to_bytes(cin))
    /\ cpc' = "done"
    /\ UNCHANGED <<cmode, cin, cenc>>
    /\ UNCHANGED tvars

CodecNext == TestEncrypt \/ TestDecrypt \/ WireDecrypt \/ SizeToBytes

CodecSpec == CodecInit /\ [][CodecNext]_vars

(***************************************************************************)
(* Properties of the codec (checked under CodecSpec)                       *)
(***************************************************************************)

\* the number four bytes spell, most significant byte first
BigEndianValue(b) == ((b[1] * 256 + b[2]) * 256 + b[3]) * 256 + b[4]

IsByteSeq(b) == \A i \in 1..Len(b) : b[i] \in 0..255

\* C1: decrypting what encrypt_payload produced returns the plaintext, for
\* every plaintext, the empty one and those holding the byte 171 included.
C1_RoundTrip ==
    (cmode = "test" /\ cpc = "done") => cres = Returned(cin)

C1_Witness ==
    /\ cmode = "test" /\ cpc = "done"
    /\ Len(cin) >= 2
    /\ \E i \in 1..Len(cin) : cin[i] = 171
    /\ cres.kind = "ok" /\ cres.bytes = cin

\* the buffer holds fewer bytes than the 4 + n its own prefix declares
Truncated(buf) ==
    \/ Len(buf) < 4
    \/ Len(buf) < 4 + BigEndianValue(SubSeq(buf, 1, 4))

\* C2: decrypt_payload on a buffer shorter than its prefix declares fails with
\* the truncated-frame error and does not panic.
C2_TruncatedFrameIsError ==
    (cmode = "wire" /\ cpc = "done" /\ Truncated(cin)) =>
        (cres.kind = "err" /\ cres.msg = "truncated frame")

\* C3: encrypt_payload(x) is len(x) + 4 bytes long and starts with len(x) as a
\* big-endian 32-bit integer; size_to_bytes spells every length that way.
C3_Framing ==
    /\ (cmode = "test" /\ cpc # "start") =>
          /\ Len(cenc) = Len(cin) + 4
          /\ IsByteSeq(cenc)
          /\ BigEndianValue(SubSeq(cenc, 1, 4)) = Len(cin)
    /\ (cmode = "size" /\ cpc = "done") =>
          /\ Len(cres.bytes) = 4
          /\ IsByteSeq(cres.bytes)
          /\ BigEndianValue(cres.bytes) = cin

C3_Witness ==
    /\ cmode = "test" /\ cpc = "encrypted"
    /\ Len(cin) = 3
    /\ cenc[1] = 0 /\ cenc[2] = 0 /\ cenc[3] = 0 /\ cenc[4] = 3
    /\ Len(cenc) = 7

(***************************************************************************)
(* Properties of send_command (checked under Spec)                         *)
(***************************************************************************)

\* C4: every call ends with a typed response or a PlugError, never a panic.
C4_ResultOrError ==
    pc = "done" => outcome.kind \in {"ok", "err"}

\* C5: a peer that accepts and closes at once makes the call return
\* "Connection error".
C5_ClosedPeerIsConnectionError ==
    (peer = "close" /\ pc = "done") => outcome = PlugError("Connection error")

\* C6: the read never starts before every byte of encrypt_payload(request)
\* was written.
C6_WrittenFullyBeforeRead ==
    steps["read"] > 0 => sent = encrypt_payload(request)

\* C7: when the read returned fewer bytes than the 4 + n the response's prefix
\* declares, the call returns "Read failed".
C7_ShortReadIsReadError ==
    ( /\ pc = "done"
      /\ peer = "respond"
      /\ steps["read"] = 1
      /\ Len(recv) < 4 + BigEndianValue(SubSeq(resp, 1, 4)) )
    => outcome = PlugError("Read failed")

\* C8: a response whose leaf fields are absent or null deserializes successfully.
C8_SparseResponseDeserializes ==
    ( /\ pc = "done"
      /\ steps["deserialize"] = 1
      /\ \E d \in Docs : d.sparse /\ d.text = decrypted )
    => outcome.kind = "ok"

\* C9: with a peer that never sends, the call ends with "Read failed".
C9_SilentPeerIsReadError ==
    (peer = "silent" /\ pc = "done") => outcome = PlugError("Read failed")

\* the error each step returns
IsErrorOf(s, o) ==
    /\ o.kind = "err"
    /\ CASE s = "connect" -> o.details = <<"Connection error">>
         [] s = "write" -> o.details = <<"Write failed">>
         [] s = "read" -> o.details = <<"Read failed">>
         [] s = "decode" -> o.details = <<"Decoding failed">>
         [] s = "deserialize" ->
                /\ o.details[1] = "Deserialization failed. Reason: "
                /\ Len(o.details) > 1
                /\ \A i \in 2..Len(o.details) : o.details[i] # ""

====
